---- MODULE Spec2Model ----
(***************************************************************************)
(* Model of the cloud-disk agent extension                                 *)
(* (ironic_python_agent/extensions/cloud_disk.py).                         *)
(*                                                                         *)
(* DeviceManager keeps the set of created device names (_created_devices)  *)
(* and rewrites devices.json on every mutation.  RpcManager runs the four  *)
(* control-plane commands.  CloudDiskExtension sequences them in           *)
(* connect_cloud_disk and disconnect_cloud_disk.                           *)
(*                                                                         *)
(* A call is executed by a request thread.  The steps of a call are cut at *)
(* the points where the thread blocks: an external command (execute) and   *)
(* time.sleep.                                                             *)
(***************************************************************************)
EXTENDS Integers, Sequences, FiniteSets, TLC

(* ------------------------------ bounds -------------------------------- *)

\* number of identities (iqn, ip) callers use
MaxIdentities == 3

\* number of request threads
MaxThreads == 2

\* number of calls admitted while the threads run concurrently
MaxCalls == 2

(* --------------------------- identities ------------------------------- *)

\* (iqn, ip) pairs; the second and third give the same string "<ip>_<iqn>"
IdentityPool ==
    << [iqn |-> "iqn.2016-06.io.test:disk1",  ip |-> "10.0.0.5"],
       [iqn |-> "iqn.2016-06.io.test:disk_2", ip |-> "10.0.0.5"],
       [iqn |-> "2", ip |-> "10.0.0.5_iqn.2016-06.io.test:disk"],
       [iqn |-> "iqn.2016-06.io.test:disk1",  ip |-> "10.0.0.6"] >>

Identities == { IdentityPool[i] : i \in 1..MaxIdentities }

Threads == 1..MaxThreads

\* hashlib.md5(s.encode()).hexdigest()[:8] on the strings the pool produces
\* (joined with "_" as in the code, and with "-")
Md5Hex8(s) ==
    CASE s = "10.0.0.5_iqn.2016-06.io.test:disk1"  -> "a7165833"
      [] s = "10.0.0.5_iqn.2016-06.io.test:disk_2" -> "4e9fcad9"
      [] s = "10.0.0.6_iqn.2016-06.io.test:disk1"  -> "6cebff54"
      [] s = "10.0.0.5-iqn.2016-06.io.test:disk1"  -> "3980ac01"
      [] s = "10.0.0.5-iqn.2016-06.io.test:disk_2" -> "58a7ad02"
      [] s = "10.0.0.5_iqn.2016-06.io.test:disk-2" -> "cf4bbec3"
      [] s = "10.0.0.6-iqn.2016-06.io.test:disk1"  -> "16b8b05d"

\* DeviceManager._find_unique_name
_find_unique_name(prefix, ip, iqn) == prefix \o Md5Hex8(ip \o "_" \o iqn)

\* the names check_iscsi_name / check_blk_name look up
IscsiName(id) == _find_unique_name("iscsi", id.ip, id.iqn)
BlkName(id)   == _find_unique_name("blk", id.ip, id.iqn)

\* variant: the name is built with another separator than in _find_unique_name
_generate_unique_name_Dash(prefix, ip, iqn) == prefix \o Md5Hex8(ip \o "-" \o iqn)

\* DeviceManager._generate_unique_name, the derivation (its own copy of the
\* code of _find_unique_name); the raise is NameCollision below
_generate_unique_name(prefix, ip, iqn) == prefix \o Md5Hex8(ip \o "_" \o iqn)

\* the names get_iscsi_name / get_blk_name allocate
get_iscsi_name(id) == _generate_unique_name("iscsi", id.ip, id.iqn)
get_blk_name(id)   == _generate_unique_name("blk", id.ip, id.iqn)

AllNames == { IscsiName(id) : id \in Identities } \cup { BlkName(id) : id \in Identities }

(* ----------------------------- results -------------------------------- *)

None == "None"

ConnectOk         == [kind |-> "return",     msg |-> "Cloud disk connected successfully."]
ConnectFailed     == [kind |-> "BadRequest", msg |-> "Cloud disk connection failed."]
ConnectInvalid    == [kind |-> "BadRequest", msg |-> "Command failed with error"]
DisconnectOk      == [kind |-> "return",     msg |-> "Cloud disk disconnected successfully."]
DisconnectFailed  == [kind |-> "BadRequest", msg |-> "Cloud disk disconnection failed."]
DisconnectInvalid == [kind |-> "BadRequest", msg |-> "Command failed with error."]
NoResult          == [kind |-> "none",       msg |-> ""]

Results == { ConnectOk, ConnectFailed, ConnectInvalid,
             DisconnectOk, DisconnectFailed, DisconnectInvalid, NoResult }

\* the except clauses of connect_cloud_disk
ConnectHandler(exc) ==
    CASE exc = "RpcCommandError" -> ConnectFailed
      [] exc = "ValueError"      -> ConnectInvalid

\* the except clauses of disconnect_cloud_disk
DisconnectHandler(exc) ==
    CASE exc = "RpcCommandError" -> DisconnectFailed
      [] exc = "ValueError"      -> DisconnectInvalid

(* ------------------------ command executor ---------------------------- *)

\* how one execute(*cmd) ends: clean, with text on stderr, or by raising
Outcomes == { "ok", "stderr", "raise" }

\* variant: text on stderr is not treated as a failure
CommandSucceeded_IgnoresStderr(outcome) == outcome # "raise"

\* "if stderr: raise RpcCommandError" and "except Exception": both fail the step
CommandSucceeded(outcome) == outcome = "ok"

Commands == { "bdev_iscsi_create", "emulator_virtio_blk_device_create",
              "emulator_virtio_blk_device_delete", "bdev_iscsi_delete" }

CreateCommands == { "bdev_iscsi_create", "emulator_virtio_blk_device_create" }
DeleteCommands == { "emulator_virtio_blk_device_delete", "bdev_iscsi_delete" }

Invocation(cmd, name, ok) == [cmd |-> cmd, name |-> name, ok |-> ok]

(* --------------------------- name registry ---------------------------- *)

\* variant: the membership test of _generate_unique_name is missing
NameCollision_Unchecked(name, created) == FALSE

\* _generate_unique_name: raises ValueError when the name is already recorded
NameCollision(name, created) == name \in created

\* variant: the membership test of check_blk_name / check_iscsi_name is missing
NotFound_Unchecked(name, created) == FALSE

\* check_blk_name / check_iscsi_name: raise ValueError when the name is absent
NotFound(name, created) == name \notin created

\* variant: add_device_name runs before the outcome is known
AfterCreate_Eager(created, name, ok) == created \cup {name}

\* a create step: add_device_name runs only when the command succeeded
AfterCreate(created, name, ok) == IF ok THEN created \cup {name} ELSE created

\* variant: remove_device_name runs whatever the outcome
AfterDelete_Always(created, name, ok) == created \ {name}

\* variant: remove_device_name is never called
AfterDelete_Never(created, name, ok) == created

\* variant: a delete empties the whole set
AfterDelete_Clears(created, name, ok) == IF ok THEN {} ELSE created

\* a delete step: remove_device_name runs only when the command succeeded
AfterDelete(created, name, ok) == IF ok THEN created \ {name} ELSE created

(* ---------------------------- devices.json ---------------------------- *)

\* contents of devices.json: no file, a JSON list, or text json.load rejects;
\* size is the length of the text in the file
Absent    == [state |-> "absent",     data |-> << >>, size |-> 0]

\* the file right after open(..., 'w')
Truncated == [state |-> "unreadable", data |-> << >>, size |-> 0]

\* a shorter text written over the start of a longer one
Garbled(size) == [state |-> "unreadable", data |-> << >>, size |-> size]

RECURSIVE SetToList(_)
\* list(self._created_devices): the elements one after another (the order
\* Python gives them in is not modelled, one order stands for all)
SetToList(S) ==
    IF S = {} THEN << >>
    ELSE LET n == CHOOSE x \in S : TRUE IN << n >> \o SetToList(S \ {n})

RECURSIVE JsonLen(_)
\* length of the JSON text of a list of strings: ["a", "b"]
JsonLen(list) ==
    IF list = << >> THEN 2
    ELSE IF Len(list) = 1 THEN Len(list[1]) + 4
    ELSE Len(list[1]) + 4 + JsonLen(Tail(list))

\* variant: the list is cut after its first element
json_dump_First(S) ==
    LET list == IF S = {} THEN << >> ELSE << SetToList(S)[1] >>
    IN  [state |-> "list", data |-> list, size |-> JsonLen(list)]

\* json.dump(list(self._created_devices), f)
json_dump(S) ==
    [state |-> "list", data |-> SetToList(S), size |-> JsonLen(SetToList(S))]

\* load_devices: set(json.load(f)); no file or a decode error leave the set empty
load_devices(file) ==
    IF file.state = "list" THEN { file.data[i] : i \in 1..Len(file.data) } ELSE {}

\* the file handle persist_devices holds between open and the end of the with block
NotWriting == [open |-> FALSE, data |-> Absent]

\* variant: the finally clause does not look at blk_value
RollbackNeeded_IgnoresBlk(iscsi, blk) == iscsi # None

\* variant: the finally clause rolls back unconditionally
RollbackNeeded_Always(iscsi, blk) == TRUE

\* the finally clause of connect_cloud_disk
RollbackNeeded(iscsi, blk) == iscsi # None /\ blk = None

\* variant: the rollback error leaves the finally clause
AfterRollback_Raises(res, ok) ==
    IF ok THEN res ELSE [kind |-> "RpcCommandError", msg |-> "bdev_iscsi_delete"]

\* the except clause inside finally: a rollback error is logged, not raised
AfterRollback(res, ok) == res

(* ------------------------------- state -------------------------------- *)

VARIABLES
    created,        \* DeviceManager._created_devices
    devices_json,   \* the contents of devices.json
    plane,          \* resources that exist on the control plane
    pc,             \* per thread: position in the call
    op,             \* per thread: "connect" / "disconnect"
    arg,            \* per thread: the (iqn, ip) of the call
    iscsi_value,    \* per thread: local iscsi_value / iscsi_name
    blk_value,      \* per thread: local blk_value / blk_name
    bdev_name,      \* per thread: --bdev_name given to emulator_virtio_blk_device_create
    exc,            \* per thread: exception class raised by a step
    result,         \* per thread: what the call returns or raises
    cmds,           \* per thread: commands run by the call, in order
    outcome,        \* per thread: how the last execute() of the call ended
    before,         \* per thread: _created_devices when the call started
    slept,          \* per thread: time.sleep(10) has elapsed in this call
    writing,        \* per thread: the open handle of persist_devices and its list
    persist_failed, \* per thread: a persist_devices of the call logged an error
    write_failed,   \* a persist_devices has logged an error since the set was loaded
    last,           \* the previous finished call
    admitted        \* calls admitted so far by the concurrent dispatcher

vars == << created, devices_json, plane, pc, op, arg, iscsi_value, blk_value,
           bdev_name, exc, result, cmds, outcome, before, slept, writing,
           persist_failed, write_failed, last, admitted >>

locals == << op, arg, iscsi_value, blk_value, exc, result, cmds, before, slept >>

\* what persist_devices reads and writes
store == << devices_json, writing, persist_failed, write_failed >>

NoCall == [op |-> None, iscsi |-> None, blk |-> None, result |-> NoResult,
           cmds |-> << >>, before |-> {}, after |-> {}]

Init ==
    /\ created = load_devices(Absent)
    /\ devices_json = Absent
    /\ plane = {}
    /\ pc = [t \in Threads |-> "idle"]
    /\ op = [t \in Threads |-> None]
    /\ arg = [t \in Threads |-> IdentityPool[1]]
    /\ iscsi_value = [t \in Threads |-> None]
    /\ blk_value = [t \in Threads |-> None]
    /\ bdev_name = [t \in Threads |-> None]
    /\ exc = [t \in Threads |-> None]
    /\ result = [t \in Threads |-> NoResult]
    /\ cmds = [t \in Threads |-> << >>]
    /\ outcome = [t \in Threads |-> None]
    /\ before = [t \in Threads |-> {}]
    /\ slept = [t \in Threads |-> FALSE]
    /\ writing = [t \in Threads |-> NotWriting]
    /\ persist_failed = [t \in Threads |-> FALSE]
    /\ write_failed = FALSE
    /\ last = NoCall
    /\ admitted = 0

(* --------------------------- persist_devices -------------------------- *)

\* add_device_name / remove_device_name have changed the set to now and call
\* persist_devices: open(..., 'w') truncates the file and the list to write is
\* taken, or open raises and the error is logged
persist_devices(t, now, opened) ==
    IF opened
      THEN /\ devices_json' = Truncated
           /\ writing' = [writing EXCEPT ![t] = [open |-> TRUE, data |-> json_dump(now)]]
           /\ UNCHANGED << persist_failed, write_failed >>
      ELSE /\ persist_failed' = [persist_failed EXCEPT ![t] = TRUE]
           /\ write_failed' = TRUE
           /\ UNCHANGED << devices_json, writing >>

\* variant: the IOError of open leaves persist_devices
PersistRaises_Open(opened) == ~opened

\* the except clauses of persist_devices log every error: nothing is raised
PersistRaises(opened) == FALSE

\* the text of the handle written at offset 0 of the file: it replaces a text
\* that is not longer (the file is empty unless another thread wrote it since
\* the open), and leaves the tail of a longer one behind it
Overwrite(file, text) ==
    IF text.size >= file.size THEN text ELSE Garbled(file.size)

\* the with block of persist_devices ends: the list reaches the file, or the
\* write raises, nothing is written and the error is logged
PersistWrite(t) ==
    /\ writing[t].open
    /\ \E written \in BOOLEAN :
         /\ devices_json' = IF written THEN Overwrite(devices_json, writing[t].data)
                                       ELSE devices_json
         /\ persist_failed' = [persist_failed EXCEPT ![t] = @ \/ ~written]
         /\ write_failed' = (write_failed \/ ~written)
    /\ writing' = [writing EXCEPT ![t] = NotWriting]
    /\ UNCHANGED << created, plane, pc, op, arg, iscsi_value, blk_value, bdev_name,
                    exc, result, cmds, outcome, before, slept, last >>

(* -------------------------- connect_cloud_disk ------------------------ *)

\* entry of connect_cloud_disk up to the launch of bdev_iscsi_create:
\* get_iscsi_name runs before the try block of execute_rpc_create_iscsi_bdev
ConnectCall(t, id) ==
    /\ pc[t] = "idle"
    /\ op' = [op EXCEPT ![t] = "connect"]
    /\ arg' = [arg EXCEPT ![t] = id]
    /\ before' = [before EXCEPT ![t] = created]
    /\ iscsi_value' = [iscsi_value EXCEPT ![t] = None]
    /\ blk_value' = [blk_value EXCEPT ![t] = None]
    /\ cmds' = [cmds EXCEPT ![t] = << >>]
    /\ slept' = [slept EXCEPT ![t] = FALSE]
    /\ IF NameCollision(get_iscsi_name(id), created)
         THEN /\ exc' = [exc EXCEPT ![t] = "ValueError"]
              /\ result' = [result EXCEPT ![t] = ConnectHandler("ValueError")]
              /\ pc' = [pc EXCEPT ![t] =
                          IF RollbackNeeded(None, None) THEN "rollback" ELSE "done"]
         ELSE /\ exc' = [exc EXCEPT ![t] = None]
              /\ result' = [result EXCEPT ![t] = NoResult]
              /\ pc' = [pc EXCEPT ![t] = "bdev_iscsi_create"]
    /\ UNCHANGED << created, plane, bdev_name, outcome, last >>
    /\ UNCHANGED store

\* bdev_iscsi_create ends; on success the name is recorded and persisted and
\* the iscsi name is returned to connect_cloud_disk
BdevCreateDone(t) ==
    /\ pc[t] = "bdev_iscsi_create"
    /\ \E o \in Outcomes, opened \in BOOLEAN :
         LET name == get_iscsi_name(arg[t])
             ran  == CommandSucceeded(o)
             ok   == ran /\ ~PersistRaises(opened)
             now  == AfterCreate(created, name, ran)
         IN  /\ plane' = IF o = "ok" THEN plane \cup {name} ELSE plane
             /\ created' = now
             /\ outcome' = [outcome EXCEPT ![t] = o]
             /\ cmds' = [cmds EXCEPT ![t] =
                           Append(@, Invocation("bdev_iscsi_create", name, o = "ok"))]
             /\ IF ran THEN persist_devices(t, now, opened) ELSE UNCHANGED store
             /\ IF ok
                  THEN /\ iscsi_value' = [iscsi_value EXCEPT ![t] = name]
                       /\ pc' = [pc EXCEPT ![t] = "get_blk_name"]
                       /\ UNCHANGED << exc, result >>
                  ELSE /\ exc' = [exc EXCEPT ![t] = "RpcCommandError"]
                       /\ result' = [result EXCEPT ![t] =
                                       ConnectHandler("RpcCommandError")]
                       /\ pc' = [pc EXCEPT ![t] =
                                   IF RollbackNeeded(None, None)
                                     THEN "rollback" ELSE "done"]
                       /\ UNCHANGED iscsi_value
    /\ UNCHANGED << op, arg, blk_value, bdev_name, before, slept, last >>

\* step 2 starts once persist_devices has returned: get_blk_name, then the
\* launch of emulator_virtio_blk_device_create with iscsi_value as --bdev_name
GetBlkName(t) ==
    /\ pc[t] = "get_blk_name"
    /\ ~writing[t].open
    /\ IF NameCollision(get_blk_name(arg[t]), created)
         THEN /\ exc' = [exc EXCEPT ![t] = "ValueError"]
              /\ result' = [result EXCEPT ![t] = ConnectHandler("ValueError")]
              /\ pc' = [pc EXCEPT ![t] =
                          IF RollbackNeeded(iscsi_value[t], None)
                            THEN "rollback" ELSE "done"]
              /\ UNCHANGED bdev_name
         ELSE /\ bdev_name' = [bdev_name EXCEPT ![t] = iscsi_value[t]]
              /\ pc' = [pc EXCEPT ![t] = "emulator_virtio_blk_device_create"]
              /\ UNCHANGED << exc, result >>
    /\ UNCHANGED << created, plane, op, arg, iscsi_value, blk_value, cmds, outcome,
                    before, slept, last >>
    /\ UNCHANGED store

\* emulator_virtio_blk_device_create ends; then the except / finally clauses
BlkCreateDone(t) ==
    /\ pc[t] = "emulator_virtio_blk_device_create"
    /\ \E o \in Outcomes, opened \in BOOLEAN :
         LET name == get_blk_name(arg[t])
             ran  == CommandSucceeded(o)
             ok   == ran /\ ~PersistRaises(opened)
             now  == AfterCreate(created, name, ran)
             blk  == IF ok THEN name ELSE None
         IN  /\ plane' = IF o = "ok" THEN plane \cup {name} ELSE plane
             /\ created' = now
             /\ outcome' = [outcome EXCEPT ![t] = o]
             /\ IF ran THEN persist_devices(t, now, opened) ELSE UNCHANGED store
             /\ cmds' = [cmds EXCEPT ![t] =
                           Append(@, Invocation("emulator_virtio_blk_device_create",
                                                name, o = "ok"))]
             /\ blk_value' = [blk_value EXCEPT ![t] = blk]
             /\ exc' = [exc EXCEPT ![t] = IF ok THEN None ELSE "RpcCommandError"]
             /\ result' = [result EXCEPT ![t] =
                             IF ok THEN ConnectOk ELSE ConnectHandler("RpcCommandError")]
             /\ pc' = [pc EXCEPT ![t] =
                         IF RollbackNeeded(iscsi_value[t], blk)
                           THEN "rollback" ELSE "done"]
    /\ UNCHANGED << op, arg, iscsi_value, bdev_name, before, slept, last >>

\* the bdev_iscsi_delete launched by the finally clause ends
RollbackDone(t) ==
    /\ pc[t] = "rollback"
    /\ \E o \in Outcomes, opened \in BOOLEAN :
         LET name == iscsi_value[t]
             ran  == CommandSucceeded(o)
             ok   == ran /\ ~PersistRaises(opened)
             now  == AfterDelete(created, name, ran)
         IN  /\ plane' = IF o = "ok" THEN plane \ {name} ELSE plane
             /\ created' = now
             /\ outcome' = [outcome EXCEPT ![t] = o]
             /\ IF ran THEN persist_devices(t, now, opened) ELSE UNCHANGED store
             /\ cmds' = [cmds EXCEPT ![t] =
                           Append(@, Invocation("bdev_iscsi_delete", name, o = "ok"))]
             /\ result' = [result EXCEPT ![t] = AfterRollback(@, ok)]
             /\ pc' = [pc EXCEPT ![t] = "done"]
    /\ UNCHANGED << op, arg, iscsi_value, blk_value, bdev_name, exc, before, slept,
                    last >>

(* ------------------------ disconnect_cloud_disk ----------------------- *)

\* entry of disconnect_cloud_disk: print_all_devices only reads the set; then
\* check_blk_name, then the launch of emulator_virtio_blk_device_delete
DisconnectCall(t, id) ==
    /\ pc[t] = "idle"
    /\ op' = [op EXCEPT ![t] = "disconnect"]
    /\ arg' = [arg EXCEPT ![t] = id]
    /\ before' = [before EXCEPT ![t] = created]
    /\ iscsi_value' = [iscsi_value EXCEPT ![t] = None]
    /\ cmds' = [cmds EXCEPT ![t] = << >>]
    /\ slept' = [slept EXCEPT ![t] = FALSE]
    /\ IF NotFound(BlkName(id), created)
         THEN /\ exc' = [exc EXCEPT ![t] = "ValueError"]
              /\ result' = [result EXCEPT ![t] = DisconnectHandler("ValueError")]
              /\ blk_value' = [blk_value EXCEPT ![t] = None]
              /\ pc' = [pc EXCEPT ![t] = "done"]
         ELSE /\ exc' = [exc EXCEPT ![t] = None]
              /\ result' = [result EXCEPT ![t] = NoResult]
              /\ blk_value' = [blk_value EXCEPT ![t] = BlkName(id)]
              /\ pc' = [pc EXCEPT ![t] = "emulator_virtio_blk_device_delete"]
    /\ UNCHANGED << created, plane, bdev_name, outcome, last >>
    /\ UNCHANGED store

\* emulator_virtio_blk_device_delete ends; on success the blk name is released
\* and persisted
BlkDeleteDone(t) ==
    /\ pc[t] = "emulator_virtio_blk_device_delete"
    /\ \E o \in Outcomes, opened \in BOOLEAN :
         LET name == blk_value[t]
             ran  == CommandSucceeded(o)
             ok   == ran /\ ~PersistRaises(opened)
             now  == AfterDelete(created, name, ran)
         IN  /\ plane' = IF o = "ok" THEN plane \ {name} ELSE plane
             /\ created' = now
             /\ outcome' = [outcome EXCEPT ![t] = o]
             /\ cmds' = [cmds EXCEPT ![t] =
                           Append(@, Invocation("emulator_virtio_blk_device_delete",
                                                name, o = "ok"))]
             /\ IF ran THEN persist_devices(t, now, opened) ELSE UNCHANGED store
             /\ IF ok
                  THEN /\ pc' = [pc EXCEPT ![t] = "check_iscsi_name"]
                       /\ UNCHANGED << exc, result >>
                  ELSE /\ exc' = [exc EXCEPT ![t] = "RpcCommandError"]
                       /\ result' = [result EXCEPT ![t] =
                                       DisconnectHandler("RpcCommandError")]
                       /\ pc' = [pc EXCEPT ![t] = "done"]
    /\ UNCHANGED << op, arg, iscsi_value, blk_value, bdev_name, before, slept, last >>

\* step 3 once persist_devices has returned: check_iscsi_name, then the thread
\* enters time.sleep(10)
CheckIscsiName(t) ==
    /\ pc[t] = "check_iscsi_name"
    /\ ~writing[t].open
    /\ IF NotFound(IscsiName(arg[t]), created)
         THEN /\ exc' = [exc EXCEPT ![t] = "ValueError"]
              /\ result' = [result EXCEPT ![t] = DisconnectHandler("ValueError")]
              /\ pc' = [pc EXCEPT ![t] = "done"]
              /\ UNCHANGED iscsi_value
         ELSE /\ iscsi_value' = [iscsi_value EXCEPT ![t] = IscsiName(arg[t])]
              /\ pc' = [pc EXCEPT ![t] = "sleep"]
              /\ UNCHANGED << exc, result >>
    /\ UNCHANGED << created, plane, op, arg, blk_value, bdev_name, cmds, outcome,
                    before, slept, last >>
    /\ UNCHANGED store

\* variant: bdev_iscsi_delete is launched without the sleep
SleepDone_Skipped(t) ==
    /\ pc[t] = "sleep"
    /\ pc' = [pc EXCEPT ![t] = "bdev_iscsi_delete"]
    /\ UNCHANGED << created, plane, op, arg, iscsi_value, blk_value, bdev_name,
                    exc, result, cmds, outcome, before, slept, last >>
    /\ UNCHANGED store

\* time.sleep(10) elapses and bdev_iscsi_delete is launched
SleepDone(t) ==
    /\ pc[t] = "sleep"
    /\ slept' = [slept EXCEPT ![t] = TRUE]
    /\ pc' = [pc EXCEPT ![t] = "bdev_iscsi_delete"]
    /\ UNCHANGED << created, plane, op, arg, iscsi_value, blk_value, bdev_name,
                    exc, result, cmds, outcome, before, last >>
    /\ UNCHANGED store

\* bdev_iscsi_delete of step 4 ends
BdevDeleteDone(t) ==
    /\ pc[t] = "bdev_iscsi_delete"
    /\ \E o \in Outcomes, opened \in BOOLEAN :
         LET name == iscsi_value[t]
             ran  == CommandSucceeded(o)
             ok   == ran /\ ~PersistRaises(opened)
             now  == AfterDelete(created, name, ran)
         IN  /\ plane' = IF o = "ok" THEN plane \ {name} ELSE plane
             /\ created' = now
             /\ outcome' = [outcome EXCEPT ![t] = o]
             /\ IF ran THEN persist_devices(t, now, opened) ELSE UNCHANGED store
             /\ cmds' = [cmds EXCEPT ![t] =
                           Append(@, Invocation("bdev_iscsi_delete", name, o = "ok"))]
             /\ exc' = [exc EXCEPT ![t] = IF ok THEN None ELSE "RpcCommandError"]
             /\ result' = [result EXCEPT ![t] =
                             IF ok THEN DisconnectOk
                                   ELSE DisconnectHandler("RpcCommandError")]
             /\ pc' = [pc EXCEPT ![t] = "done"]
    /\ UNCHANGED << op, arg, iscsi_value, blk_value, bdev_name, before, slept, last >>

(* ------------------------------ dispatch ------------------------------ *)

\* the result or the BadRequest reaches the caller; the thread is free again
Return(t) ==
    /\ pc[t] = "done"
    /\ ~writing[t].open
    /\ last' = [op |-> op[t], iscsi |-> IscsiName(arg[t]), blk |-> BlkName(arg[t]),
                result |-> result[t], cmds |-> cmds[t],
                before |-> before[t], after |-> created]
    /\ pc' = [pc EXCEPT ![t] = "idle"]
    /\ op' = [op EXCEPT ![t] = None]
    /\ arg' = [arg EXCEPT ![t] = IdentityPool[1]]
    /\ iscsi_value' = [iscsi_value EXCEPT ![t] = None]
    /\ blk_value' = [blk_value EXCEPT ![t] = None]
    /\ bdev_name' = [bdev_name EXCEPT ![t] = None]
    /\ exc' = [exc EXCEPT ![t] = None]
    /\ result' = [result EXCEPT ![t] = NoResult]
    /\ cmds' = [cmds EXCEPT ![t] = << >>]
    /\ outcome' = [outcome EXCEPT ![t] = None]
    /\ before' = [before EXCEPT ![t] = {}]
    /\ slept' = [slept EXCEPT ![t] = FALSE]
    /\ persist_failed' = [persist_failed EXCEPT ![t] = FALSE]
    /\ UNCHANGED << created, devices_json, plane, writing, write_failed >>

\* the agent process stops wherever it is and is started again:
\* DeviceManager.__init__ loads the set from devices.json
Restart ==
    /\ created' = load_devices(devices_json)
    /\ pc' = [t \in Threads |-> "idle"]
    /\ op' = [t \in Threads |-> None]
    /\ arg' = [t \in Threads |-> IdentityPool[1]]
    /\ iscsi_value' = [t \in Threads |-> None]
    /\ blk_value' = [t \in Threads |-> None]
    /\ bdev_name' = [t \in Threads |-> None]
    /\ exc' = [t \in Threads |-> None]
    /\ result' = [t \in Threads |-> NoResult]
    /\ cmds' = [t \in Threads |-> << >>]
    /\ outcome' = [t \in Threads |-> None]
    /\ before' = [t \in Threads |-> {}]
    /\ slept' = [t \in Threads |-> FALSE]
    /\ writing' = [t \in Threads |-> NotWriting]
    /\ persist_failed' = [t \in Threads |-> FALSE]
    /\ write_failed' = FALSE
    /\ last' = NoCall
    /\ UNCHANGED << devices_json, plane >>

\* no call is in progress on any thread
Quiet == \A t \in Threads : pc[t] = "idle"

Step(t) ==
    \/ BdevCreateDone(t)
    \/ GetBlkName(t)
    \/ BlkCreateDone(t)
    \/ RollbackDone(t)
    \/ BlkDeleteDone(t)
    \/ CheckIscsiName(t)
    \/ SleepDone(t)
    \/ BdevDeleteDone(t)
    \/ PersistWrite(t)
    \/ Return(t)

\* calls are served one at a time
Next ==
    /\ \E t \in Threads :
          \/ Quiet /\ \E id \in Identities : ConnectCall(t, id)
          \/ Quiet /\ \E id \in Identities : DisconnectCall(t, id)
          \/ Step(t)
    /\ UNCHANGED admitted

Spec == Init /\ [][Next]_vars

\* calls are served by concurrent request threads
Admit == admitted < MaxCalls /\ admitted' = admitted + 1

NextConc ==
    \E t \in Threads :
        \/ Admit /\ \E id \in Identities : ConnectCall(t, id)
        \/ Admit /\ \E id \in Identities : DisconnectCall(t, id)
        \/ Step(t) /\ UNCHANGED admitted

SpecConc == Init /\ [][NextConc]_vars

\* calls are served one at a time and the process may be restarted
NextRestart ==
    \/ Next
    \/ Restart /\ UNCHANGED admitted

SpecRestart == Init /\ [][NextRestart]_vars

Files == { Absent } \cup { Garbled(n) : n \in 0..JsonLen(SetToList(AllNames)) }
            \cup { json_dump(S) : S \in SUBSET AllNames }

TypeOK ==
    /\ created \subseteq AllNames
    /\ devices_json \in Files
    /\ plane \subseteq AllNames
    /\ pc \in [Threads -> { "idle", "bdev_iscsi_create", "get_blk_name",
                            "emulator_virtio_blk_device_create", "rollback",
                            "emulator_virtio_blk_device_delete", "check_iscsi_name",
                            "sleep", "bdev_iscsi_delete", "done" }]
    /\ op \in [Threads -> { None, "connect", "disconnect" }]
    /\ arg \in [Threads -> Identities]
    /\ iscsi_value \in [Threads -> AllNames \cup {None}]
    /\ blk_value \in [Threads -> AllNames \cup {None}]
    /\ bdev_name \in [Threads -> AllNames \cup {None}]
    /\ exc \in [Threads -> { None, "ValueError", "RpcCommandError" }]
    /\ result \in [Threads -> Results]
    /\ \A t \in Threads : Len(cmds[t]) <= 3
    /\ outcome \in [Threads -> Outcomes \cup {None}]
    /\ slept \in [Threads -> BOOLEAN]
    /\ \A t \in Threads : writing[t].open \in BOOLEAN /\ writing[t].data \in Files
    /\ persist_failed \in [Threads -> BOOLEAN]
    /\ write_failed \in BOOLEAN
    /\ admitted \in 0..MaxCalls

(* --------------------------- observations ----------------------------- *)

ConnectDone(t)    == pc[t] = "done" /\ op[t] = "connect"
DisconnectDone(t) == pc[t] = "done" /\ op[t] = "disconnect"

Iscsi(t) == IscsiName(arg[t])
Blk(t)   == BlkName(arg[t])

\* the call of thread t has run this command with this outcome
Ran(t, cmd, name, ok) ==
    \E i \in 1..Len(cmds[t]) : cmds[t][i] = Invocation(cmd, name, ok)

\* the call of thread t has run a command of this set
RanAny(t, set) == \E i \in 1..Len(cmds[t]) : cmds[t][i].cmd \in set

\* no command of the call of thread t has failed
NoneFailed(t) == \A i \in 1..Len(cmds[t]) : cmds[t][i].ok

\* step 1 succeeded and step 2's command failed in the connect of thread t
Step2Failed(t) ==
    /\ ConnectDone(t)
    /\ Iscsi(t) \notin before[t] /\ Blk(t) \notin before[t]
    /\ Ran(t, "bdev_iscsi_create", Iscsi(t), TRUE)
    /\ Ran(t, "emulator_virtio_blk_device_create", Blk(t), FALSE)

\* a call that ended with the front-end deleted and the bdev delete failed
PartialDetach(call) ==
    /\ call.op = "disconnect"
    /\ call.cmds = << Invocation("emulator_virtio_blk_device_delete", call.blk, TRUE),
                      Invocation("bdev_iscsi_delete", call.iscsi, FALSE) >>

(* ------------------------------- claims ------------------------------- *)

\* C1: when bdev-create succeeds and front-end-create fails in a connect of an
\* identity that had no recorded name, the Name Set holds neither of its names
\* once connect is over, whether the rollback delete succeeded or failed.
C1_AttachRollbackReleases ==
    \A t \in Threads :
        Step2Failed(t) => Iscsi(t) \notin created /\ Blk(t) \notin created

\* C2: a disconnect issued right after a disconnect of the same identity that
\* deleted the front-end and failed to delete the bdev, and in which no command
\* fails, returns success and leaves neither name recorded.
C2_RetryDisconnectSucceeds ==
    \A t \in Threads :
        ( /\ DisconnectDone(t)
          /\ PartialDetach(last)
          /\ last.iscsi = Iscsi(t) /\ last.blk = Blk(t)
          /\ Iscsi(t) \in before[t] /\ Blk(t) \notin before[t]
          /\ NoneFailed(t) )
        => /\ result[t] = DisconnectOk
           /\ Iscsi(t) \notin created /\ Blk(t) \notin created

\* the case of C3: both names were recorded, the front-end delete succeeded
\* and the bdev delete failed
DetachHalfDone(t) ==
    /\ DisconnectDone(t)
    /\ Iscsi(t) \in before[t] /\ Blk(t) \in before[t]
    /\ Ran(t, "emulator_virtio_blk_device_delete", Blk(t), TRUE)
    /\ Ran(t, "bdev_iscsi_delete", Iscsi(t), FALSE)

\* C3: a disconnect of an attached identity whose front-end delete succeeds and
\* whose bdev delete fails reports a failure, runs no create command, and leaves
\* the iscsi name recorded and the blk name not recorded.
C3_DetachPartialFailure ==
    \A t \in Threads :
        DetachHalfDone(t)
        => /\ result[t] = DisconnectFailed
           /\ ~RanAny(t, CreateCommands)
           /\ Len(cmds[t]) = 2
           /\ Iscsi(t) \in created /\ Blk(t) \notin created

C3_Witness == \E t \in Threads : DetachHalfDone(t)

\* a create command of the connect of thread t failed
CreateFailed(t) ==
    \/ Ran(t, "bdev_iscsi_create", Iscsi(t), FALSE)
    \/ Ran(t, "emulator_virtio_blk_device_create", Blk(t), FALSE)

\* both create commands of the connect of thread t succeeded
BothCreated(t) ==
    /\ Ran(t, "bdev_iscsi_create", Iscsi(t), TRUE)
    /\ Ran(t, "emulator_virtio_blk_device_create", Blk(t), TRUE)

\* C4: a connect in which step 1 or step 2 fails raises the error of that step:
\* the connection failure when a create command failed, the validation error
\* when a name collided; this holds whatever the rollback delete did.
C4_OriginatingError ==
    \A t \in Threads :
        ConnectDone(t) =>
            /\ CreateFailed(t) => result[t] = ConnectFailed /\ exc[t] = "RpcCommandError"
            /\ (~CreateFailed(t) /\ ~BothCreated(t))
                   => result[t] = ConnectInvalid /\ exc[t] = "ValueError"
            /\ BothCreated(t) => result[t] = ConnectOk

\* a failed connect whose rollback delete failed too
C4_Witness ==
    \E t \in Threads :
        /\ Step2Failed(t)
        /\ Ran(t, "bdev_iscsi_delete", Iscsi(t), FALSE)

\* a connect of an identity whose two names were recorded when it started
DuplicateConnect(t) ==
    /\ ConnectDone(t)
    /\ Iscsi(t) \in before[t] /\ Blk(t) \in before[t]

\* thread t is running a disconnect for the names of identity id
Disconnecting(t, id) ==
    /\ op[t] = "disconnect"
    /\ pc[t] # "idle"
    /\ Iscsi(t) = IscsiName(id)

\* C5: the two names a successful connect recorded stay recorded as long as no
\* disconnect runs for them, and a connect that finds them recorded fails at
\* step 1 with the name-collision validation error, runs no command, and leaves
\* the Name Set as it was, both names included.
C5_DuplicateConnectRejected ==
    /\ [](\A t \in Threads :
            /\ DuplicateConnect(t)
                 => /\ result[t] = ConnectInvalid
                    /\ exc[t] = "ValueError"
                    /\ cmds[t] = << >>
                    /\ created = before[t]
            /\ (ConnectDone(t) /\ result[t] = ConnectOk)
                 => Iscsi(t) \in created /\ Blk(t) \in created)
    /\ [][\A id \in Identities :
            ( /\ IscsiName(id) \in created /\ BlkName(id) \in created
              /\ \A t \in Threads : ~Disconnecting(t, id)' )
            => (IscsiName(id) \in created /\ BlkName(id) \in created)']_vars

\* a second connect right after a successful connect of the same identity
C5_Witness ==
    \E t \in Threads :
        /\ DuplicateConnect(t)
        /\ last.op = "connect" /\ last.result = ConnectOk
        /\ last.iscsi = Iscsi(t)

\* a disconnect of an identity that had no recorded name
UnknownDisconnect(t) ==
    /\ DisconnectDone(t)
    /\ Iscsi(t) \notin before[t] /\ Blk(t) \notin before[t]

\* C6: a disconnect of an identity with no recorded names fails with the
\* not-found validation error, runs no command, does not sleep, and leaves the
\* Name Set unchanged.
C6_UnknownDisconnectRejected ==
    \A t \in Threads :
        UnknownDisconnect(t)
        => /\ result[t] = DisconnectInvalid
           /\ exc[t] = "ValueError"
           /\ cmds[t] = << >>
           /\ ~slept[t]
           /\ created = before[t]

\* an unknown identity is disconnected while another one is recorded
C6_Witness == \E t \in Threads : UnknownDisconnect(t) /\ created # {}

\* a connect of an absent identity whose two create commands succeeded
CleanConnect(t) ==
    /\ ConnectDone(t)
    /\ Iscsi(t) \notin before[t] /\ Blk(t) \notin before[t]
    /\ BothCreated(t)

\* a disconnect without a failed command right after a successful connect of
\* the same identity, which was absent before
RoundTrip(t) ==
    /\ DisconnectDone(t)
    /\ last.op = "connect" /\ last.result = ConnectOk
    /\ last.iscsi = Iscsi(t) /\ last.blk = Blk(t)
    /\ last.iscsi \notin last.before /\ last.blk \notin last.before
    /\ NoneFailed(t)

\* C7: a connect of an absent identity whose two creates succeed returns success
\* and adds exactly the identity's two names; a disconnect that follows it with
\* the same arguments and whose deletes succeed returns success and puts the
\* Name Set back to what it was before the connect.
C7_RoundTrip ==
    \A t \in Threads :
        /\ CleanConnect(t)
             => /\ result[t] = ConnectOk
                /\ created = before[t] \cup { Iscsi(t), Blk(t) }
        /\ RoundTrip(t)
             => /\ result[t] = DisconnectOk
                /\ Ran(t, "emulator_virtio_blk_device_delete", Blk(t), TRUE)
                /\ Ran(t, "bdev_iscsi_delete", Iscsi(t), TRUE)
                /\ created = last.before

\* a round trip that ends with the Name Set it started from, which was not empty
C7_Witness ==
    \E t \in Threads : RoundTrip(t) /\ result[t] = DisconnectOk /\ last.before # {}

\* the step taken is the end of a command of thread t: create / delete of n
CreateConfirmed(t, n) ==
    /\ Len(cmds'[t]) = Len(cmds[t]) + 1
    /\ LET c == cmds'[t][Len(cmds'[t])]
       IN  c.cmd \in CreateCommands /\ c.name = n /\ c.ok

DeleteConfirmedOrRollback(t, n) ==
    /\ Len(cmds'[t]) = Len(cmds[t]) + 1
    /\ LET c == cmds'[t][Len(cmds'[t])]
       IN  /\ c.cmd \in DeleteCommands /\ c.name = n
           /\ c.ok \/ (op[t] = "connect" /\ pc[t] = "rollback")

\* C8: a name enters the Name Set only in the step in which a create command
\* for that name reported success, and leaves it only in the step in which a
\* delete command for that name reported success or was tried as rollback.
C8_MutationsFollowCommands ==
    [][\A n \in AllNames :
          /\ (n \notin created /\ n \in created')
                => \E t \in Threads : CreateConfirmed(t, n)
          /\ (n \in created /\ n \notin created')
                => \E t \in Threads : DeleteConfirmedOrRollback(t, n)]_vars

\* a name has been recorded and then released
C8_Witness ==
    /\ last.op = "disconnect" /\ last.result = DisconnectOk
    /\ last.iscsi \notin created

\* no call is in progress: every thread is idle or has its result ready
NoWorkflow == \A t \in Threads : pc[t] \in { "idle", "done" }

\* C9: with calls served one at a time and a control plane on which a command
\* takes effect exactly when it reports success, whenever no call is in progress
\* the Name Set is the set of resources that exist on the control plane.
C9_RegistryMatchesPlane == NoWorkflow => created = plane

\* a connect has ended after a failed rollback delete
C9_Witness == NoWorkflow /\ C4_Witness

\* C10: two concurrent connects of one identity are never both between the
\* collision check and the recording of the iscsi name (both running
\* bdev_iscsi_create for the same name).
C10_CollisionCheckExclusive ==
    \A t, u \in Threads :
        ( /\ t # u
          /\ op[t] = "connect" /\ op[u] = "connect"
          /\ Iscsi(t) = Iscsi(u) )
        => ~(pc[t] = "bdev_iscsi_create" /\ pc[u] = "bdev_iscsi_create")

(* --------------------- claims on concurrency and the file ------------- *)

\* every thread has finished its call and persist_devices has returned
AllFinished == \A t \in Threads : pc[t] = "done" /\ ~writing[t].open

\* the calls of the threads are the only calls since the start, one per thread,
\* on identities whose names differ, and no command and no write has failed
CleanDistinctBatch ==
    /\ AllFinished
    /\ admitted = Cardinality(Threads)
    /\ \A t, u \in Threads : t # u => Iscsi(t) # Iscsi(u) /\ Blk(t) # Blk(u)
    /\ \A t \in Threads : NoneFailed(t)
    /\ ~write_failed

\* the Name Set the calls of the threads give from the empty set when they run
\* one after another: the names of the connected identities
OneAfterAnother ==
    UNION { IF op[t] = "connect" THEN { Iscsi(t), Blk(t) } ELSE {} : t \in Threads }

\* C11: when concurrent calls on identities with distinct names have all
\* finished, with every command and every write of devices.json succeeding, the
\* Name Set and the set stored in devices.json are what the same calls give when
\* run one after another.
C11_ConcurrentDistinctSafe ==
    CleanDistinctBatch
    => /\ created = OneAfterAnother
       /\ load_devices(devices_json) = OneAfterAnother

\* no persist_devices has failed since the set was loaded and none is under way
AllWritten == ~write_failed /\ \A t \in Threads : ~writing[t].open

\* C12: a registry started again loads from devices.json the Name Set the
\* running one had, provided every write of the file since its own start
\* succeeded and none is under way; started with no file or an unreadable one
\* it has the empty Name Set.
C12_RestartRoundTrip ==
    [][Restart =>
          /\ AllWritten => created' = created
          /\ devices_json.state # "list" => created' = {}]_vars

\* the state right after a restart that has loaded a non-empty set
C12_Witness == Quiet /\ last = NoCall /\ created # {} /\ ~write_failed

RECURSIVE Replay(_, _)
\* the set the successful commands of a call make of the set it started from
Replay(set, log) ==
    IF log = << >> THEN set
    ELSE LET c == log[1]
             next == IF ~c.ok THEN set
                     ELSE IF c.cmd \in CreateCommands THEN set \cup {c.name}
                     ELSE set \ {c.name}
         IN  Replay(next, Tail(log))

\* C13: a call in which a write of devices.json failed still has every
\* successful create and delete applied to the Name Set; it ends with success
\* and without rollback when none of its commands failed; and a later connect of
\* a recorded identity is rejected from the set in memory although the file does
\* not hold the name.
C13_PersistFailureSwallowed ==
    \A t \in Threads :
        /\ persist_failed[t] =>
             /\ created = Replay(before[t], cmds[t])
             /\ (pc[t] = "done" /\ NoneFailed(t))
                    => /\ result[t] \in { ConnectOk, DisconnectOk }
                       /\ exc[t] = None
                       /\ Len(cmds[t]) = 2
        /\ (DuplicateConnect(t) /\ Iscsi(t) \notin load_devices(devices_json))
             => result[t] = ConnectInvalid

\* a connect that succeeded although its writes of devices.json failed, followed
\* by the rejected connect of the same identity
C13_Witness ==
    \E t \in Threads :
        /\ DuplicateConnect(t)
        /\ Iscsi(t) \notin load_devices(devices_json)
        /\ last.op = "connect" /\ last.result = ConnectOk /\ last.iscsi = Iscsi(t)
        /\ write_failed

\* the step taken is the end of a command of thread t
CommandEnded(t) == Len(cmds'[t]) = Len(cmds[t]) + 1

\* C14: when execute() of any of the four commands returns with text on stderr
\* (whatever the exit code) or raises (the command could not be run), the step
\* raises RpcCommandError and leaves the Name Set as it was: the call goes to
\* its except clause with the failure result, or, for the rollback delete, ends
\* with the result it already had.
C14_FailureClassification ==
    [][\A t \in Threads :
          (CommandEnded(t) /\ outcome'[t] \in { "stderr", "raise" })
          => /\ created' = created
             /\ ~cmds'[t][Len(cmds'[t])].ok
             /\ IF pc[t] = "rollback"
                  THEN pc'[t] = "done" /\ result'[t] = result[t]
                  ELSE /\ exc'[t] = "RpcCommandError"
                       /\ result'[t] = IF op[t] = "connect" THEN ConnectFailed
                                                            ELSE DisconnectFailed
                       /\ pc'[t] \in { "done", "rollback" }]_vars

\* a disconnect whose bdev delete wrote to stderr
C14_Witness ==
    \E t \in Threads :
        /\ DisconnectDone(t)
        /\ Len(cmds[t]) = 2
        /\ outcome[t] = "stderr"

\* a disconnect right after a successful connect with the same arguments
ResolveAfterRecord(t) ==
    /\ DisconnectDone(t)
    /\ last.op = "connect" /\ last.result = ConnectOk
    /\ last.iscsi = Iscsi(t) /\ last.blk = Blk(t)

\* thread t takes a step that only derives a name and tests its membership
DerivationStep(t) ==
    /\ pc[t] \in { "idle", "get_blk_name", "check_iscsi_name" }
    /\ pc'[t] # pc[t]

\* C15: an iscsi name never equals a blk name, for any two identities and for
\* both derivations (_generate_unique_name, _find_unique_name); the names a
\* disconnect resolves are the names the connect before it allocated and
\* recorded; and a derivation with its membership test leaves the Name Set as
\* it is.
C15_NameDerivation ==
    /\ [](/\ \A x, y \in Identities :
                /\ get_iscsi_name(x) # get_blk_name(y)
                /\ IscsiName(x) # BlkName(y)
                /\ get_iscsi_name(x) # BlkName(y)
                /\ IscsiName(x) # get_blk_name(y)
          /\ \A t \in Threads :
                ResolveAfterRecord(t)
                => /\ Len(cmds[t]) >= 1
                   /\ cmds[t][1].name = last.cmds[2].name
                   /\ blk_value[t] = last.cmds[2].name
                   /\ Len(cmds[t]) = 2 => cmds[t][2].name = last.cmds[1].name)
    /\ [][\A t \in Threads : DerivationStep(t) => created' = created]_vars

\* a disconnect that resolved both names the connect before it had allocated
C15_Witness ==
    \E t \in Threads : ResolveAfterRecord(t) /\ Len(cmds[t]) = 2 /\ iscsi_value[t] # None

(* ----------------------- claims on the workflows ---------------------- *)

\* C16: with calls served one at a time, whenever no call is in progress every
\* identity has no name, only its iscsi name, or both names recorded: a blk
\* name is never recorded without the iscsi name of the same identity.
C16_IdentityStates ==
    NoWorkflow =>
        \A id \in Identities : BlkName(id) \in created => IscsiName(id) \in created

\* between calls, one identity is attached and another has only its iscsi name
C16_Witness ==
    /\ NoWorkflow
    /\ \E x, y \in Identities :
          /\ IscsiName(x) \in created /\ BlkName(x) \in created
          /\ IscsiName(y) \in created /\ BlkName(y) \notin created

\* C17: in a disconnect the first command is the front-end delete of the blk
\* name and the only other one is the bdev delete; the sleep is entered only
\* after a successful front-end delete; the bdev delete is launched only after
\* the front-end delete succeeded, the blk name was released, the iscsi name
\* was resolved and the sleep has elapsed; after a failed front-end delete the
\* call is over without sleep and without bdev delete.
C17_DetachOrdering ==
    \A t \in Threads :
        op[t] = "disconnect" =>
            LET n == Len(cmds[t]) IN
            /\ n <= 2
            /\ n >= 1 => /\ cmds[t][1].cmd = "emulator_virtio_blk_device_delete"
                         /\ cmds[t][1].name = Blk(t)
            /\ n = 2 => /\ cmds[t][2].cmd = "bdev_iscsi_delete"
                        /\ cmds[t][2].name = Iscsi(t)
            /\ pc[t] \in { "check_iscsi_name", "sleep" }
                 => n = 1 /\ cmds[t][1].ok /\ ~slept[t]
            /\ (pc[t] = "bdev_iscsi_delete" \/ n = 2)
                 => /\ cmds[t][1].ok
                    /\ slept[t]
                    /\ iscsi_value[t] = Iscsi(t)
                    /\ Blk(t) \notin created
            /\ pc[t] = "bdev_iscsi_delete" => n = 1
            /\ (n >= 1 /\ ~cmds[t][1].ok) => n = 1 /\ ~slept[t] /\ pc[t] = "done"
            /\ slept[t] => n >= 1 /\ cmds[t][1].ok

\* a disconnect is running its bdev delete after the sleep
C17_Witness ==
    \E t \in Threads : op[t] = "disconnect" /\ pc[t] = "bdev_iscsi_delete" /\ slept[t]

\* C18: in a connect the first command is bdev-create; front-end-create is run
\* at most once, only after bdev-create succeeded and its name was recorded,
\* and with that name as --bdev_name; bdev-delete is run at most once, last, for
\* the name bdev-create made, and only when step 2 failed after step 1
\* succeeded; no command is run again after it failed.
C18_AttachOrdering ==
    \A t \in Threads :
        op[t] = "connect" =>
            LET n == Len(cmds[t]) IN
            /\ n <= 3
            /\ n >= 1 => /\ cmds[t][1].cmd = "bdev_iscsi_create"
                         /\ cmds[t][1].name = Iscsi(t)
            /\ (n >= 1 /\ ~cmds[t][1].ok) => n = 1 /\ pc[t] = "done"
            /\ pc[t] = "emulator_virtio_blk_device_create"
                 => /\ n = 1 /\ cmds[t][1].ok
                    /\ cmds[t][1].name \in created
                    /\ bdev_name[t] = cmds[t][1].name
            /\ n >= 2 => /\ cmds[t][1].ok
                         /\ cmds[t][2].cmd \in { "emulator_virtio_blk_device_create",
                                                 "bdev_iscsi_delete" }
                         /\ cmds[t][2].cmd = "emulator_virtio_blk_device_create"
                              => /\ cmds[t][2].name = Blk(t)
                                 /\ bdev_name[t] = cmds[t][1].name
                         /\ cmds[t][2].cmd = "bdev_iscsi_delete"
                              => n = 2 /\ exc[t] = "ValueError"
                         /\ (cmds[t][2].ok /\ cmds[t][2].cmd # "bdev_iscsi_delete")
                              => n = 2 /\ pc[t] = "done"
            /\ n = 3 => /\ cmds[t][2].cmd = "emulator_virtio_blk_device_create"
                        /\ ~cmds[t][2].ok
                        /\ cmds[t][3].cmd = "bdev_iscsi_delete"
                        /\ cmds[t][3].name = cmds[t][1].name
                        /\ pc[t] = "done"
            /\ pc[t] = "rollback"
                 => /\ n >= 1 /\ cmds[t][1].ok
                    /\ exc[t] # None
                    /\ cmds[t][n].cmd # "bdev_iscsi_delete"

\* a connect is running its rollback delete after a failed front-end create
C18_Witness ==
    \E t \in Threads :
        /\ op[t] = "connect" /\ pc[t] = "rollback"
        /\ Len(cmds[t]) = 2 /\ ~cmds[t][2].ok

(* ------------------- concurrent connects of one identity --------------- *)

\* every thread has finished a connect, all for one identity
SameIdentityConnects ==
    /\ \A t \in Threads : ConnectDone(t)
    /\ \A t, u \in Threads : arg[t] = arg[u]

\* C19: when all of the concurrent connect calls for one identity have
\* finished and one of them returned success, both the iscsi name and the blk
\* name of that identity are recorded.
C19_ConcurrentConnectKeepsAttach ==
    ( /\ SameIdentityConnects
      /\ \E t \in Threads : result[t] = ConnectOk )
    => \A t \in Threads : Iscsi(t) \in created /\ Blk(t) \in created

(* --------------------------- frame of a call --------------------------- *)

\* the names of the identity thread t is serving
OwnNames(t) == { Iscsi(t), Blk(t) }

\* thread t takes this step as part of a call
Acts(t) == pc[t] # "idle" /\ pc'[t] # pc[t]

\* the names whose membership of the Name Set this step changes
Changed == (created \ created') \cup (created' \ created)

\* C20: a call for identity X changes the Name Set membership of no name other
\* than the two names of X, and every command it runs names a resource of X;
\* so for an identity Y whose names differ from those of X, the membership of
\* Y's names is unchanged and no command names a resource of Y.
C20_WorkflowFrame ==
    /\ [](\A t \in Threads :
            op[t] # None =>
                \A i \in 1..Len(cmds[t]) : cmds[t][i].name \in OwnNames(t))
    /\ [][\A t \in Threads :
            Acts(t) => Changed \subseteq OwnNames(t)]_vars

\* a call has finished with a successful bdev delete while names of another
\* identity are recorded
C20_Witness ==
    \E t \in Threads :
        /\ pc[t] = "done"
        /\ Ran(t, "bdev_iscsi_delete", Iscsi(t), TRUE)
        /\ created \ OwnNames(t) # {}

====
